---------------------------- MODULE Spec2Model ----------------------------
(*
  A model of breaklsfr18lab.py: two linear-feedback shift registers whose
  byte outputs are added modulo 255 into a keystream, a meet-in-the-middle
  search that recovers the two seeds from a known keystream header, and the
  main routine that decrypts a file with the recovered seeds.

  The register widths of the program (12 and 19 bits) are bounds of the
  model, scaled down so that both seed spaces can be enumerated. The raw tap
  lists are the program's; the widths are the smallest for which every raw tap
  is a position of its register.
*)
EXTENDS Integers, Sequences, FiniteSets, TLC

(***************************************************************************)
(* Bounds of the model.                                                    *)
(***************************************************************************)
\* Scaled-down WIDTH_REG1 (12 in the program) and WIDTH_REG2 (19).
WIDTH_REG1 == 7
WIDTH_REG2 == 11
\* Longest header handed directly to mitm_recover_seeds.
MaxHeaderLen == 2
\* Widths, tap-list lengths and byte counts of the register engine runs.
MaxWidth == 3
MaxTaps == 2
MaxBytes == 2
\* Bytes of plaintext after the known header in a run of main.
MaxTail == 1

RAW_TAPS_REG1 == <<2, 7>>
RAW_TAPS_REG2 == <<5, 11>>

PNG_HEADER == <<137, 80, 78, 71, 13, 10, 26, 10>>

\* Python's None, returned by mitm_recover_seeds when the loop falls through
\* (the empty tuple, so that it compares with a returned pair).
None == <<>>

\* The function f evaluated at every point of its domain (a function
\* constructor alone is kept unevaluated and re-evaluated at every use).
Tabulate(f) == <<>> @@ f

(***************************************************************************)
(* Python's integer operators on naturals.                                 *)
(***************************************************************************)
\* x >> k and x << k, for k >= 0
ShiftRight(x, k) == x \div (2 ^ k)
ShiftLeft(x, k) == x * (2 ^ k)

\* x & 1
LowBit(x) == x % 2

\* x | y and x ^ y bit by bit, and tabulated for the values of four bits.
RECURSIVE OrBits(_, _)
OrBits(x, y) ==
    IF x = 0 THEN y
    ELSE IF y = 0 THEN x
    ELSE (IF x % 2 = 1 \/ y % 2 = 1 THEN 1 ELSE 0) + 2 * OrBits(x \div 2, y \div 2)

RECURSIVE XorBits(_, _)
XorBits(x, y) ==
    IF x = 0 THEN y
    ELSE IF y = 0 THEN x
    ELSE ((x + y) % 2) + 2 * XorBits(x \div 2, y \div 2)

OrNibble == Tabulate([a \in 0..15 |-> Tabulate([c \in 0..15 |-> OrBits(a, c)])])
XorNibble == Tabulate([a \in 0..15 |-> Tabulate([c \in 0..15 |-> XorBits(a, c)])])

\* x | y, four bits at a time
RECURSIVE BitOr(_, _)
BitOr(x, y) ==
    IF x = 0 THEN y
    ELSE IF y = 0 THEN x
    ELSE OrNibble[x % 16][y % 16] + 16 * BitOr(x \div 16, y \div 16)

\* x ^ y, four bits at a time
RECURSIVE BitXor(_, _)
BitXor(x, y) ==
    IF x = 0 THEN y
    ELSE IF y = 0 THEN x
    ELSE XorNibble[x % 16][y % 16] + 16 * BitXor(x \div 16, y \div 16)

(***************************************************************************)
(* convert_taps                                                            *)
(***************************************************************************)
\* An offset that takes the raw tap for 0-based already.
TapOffsetOffByOne(t, width) == width - 1 - t

\* The offset appended for one raw tap t.
TapOffset(t, width) ==
    LET idx_from_msb_0based == t - 1
        pos_from_lsb == (width - 1) - idx_from_msb_0based
    IN pos_from_lsb

RECURSIVE ConvertLoop(_, _, _, _)
ConvertLoop(raw_taps, width, k, taps) ==
    IF k > Len(raw_taps) THEN taps
    ELSE ConvertLoop(raw_taps, width, k + 1,
                     Append(taps, TapOffset(raw_taps[k], width)))

convert_taps(raw_taps, width) == ConvertLoop(raw_taps, width, 1, <<>>)

(***************************************************************************)
(* lfsr_next_bit, lfsr_next_byte, lfsr_stream                              *)
(***************************************************************************)
\* for pos in taps: fb ^= (state >> pos) & 1
RECURSIVE FeedbackLoop(_, _, _, _)
FeedbackLoop(state, taps, k, fb) ==
    IF k > Len(taps) THEN fb
    ELSE FeedbackLoop(state, taps, k + 1,
                      BitXor(fb, LowBit(ShiftRight(state, taps[k]))))

\* fb << (width - 1)
InsertFeedback(fb, width) == ShiftLeft(fb, width - 1)

\* state &= (1 << width) - 1: the low 'width' bits of state.
Mask(state, width) == state % ShiftLeft(1, width)

\* A register that takes 'width' for the index of its top bit: the feedback
\* goes to bit 'width' and the mask keeps width+1 bits.
lfsr_next_bit_wide(state, width, taps) ==
    LET out_bit == LowBit(state)
        fb == FeedbackLoop(state, taps, 1, 0)
        shifted == ShiftRight(state, 1)
        inserted == BitOr(shifted, ShiftLeft(fb, width))
    IN <<out_bit, Mask(inserted, width + 1)>>

\* Returns <<out_bit, state>>.
lfsr_next_bit(state, width, taps) ==
    LET out_bit == LowBit(state)
        fb == FeedbackLoop(state, taps, 1, 0)
        shifted == ShiftRight(state, 1)
        inserted == BitOr(shifted, InsertFeedback(fb, width))
    IN <<out_bit, Mask(inserted, width)>>

\* A byte packed most-significant bit first.
PackBitMsbFirst(b, bit, i) == BitOr(b, ShiftLeft(bit, 7 - i))

\* b |= (bit << i)
PackBit(b, bit, i) == BitOr(b, ShiftLeft(bit, i))

\* for i in range(8): bit, state = lfsr_next_bit(...); b |= bit << i
RECURSIVE NextByteLoop(_, _, _, _, _)
\* bit, state = lfsr_next_bit(state, width, taps); b |= (bit << i)
NextByteBody(r, width, taps, i, b) ==
    NextByteLoop(r[2], width, taps, i + 1, PackBit(b, r[1], i))

NextByteLoop(state, width, taps, i, b) ==
    IF i = 8 THEN <<b, state>>
    ELSE NextByteBody(lfsr_next_bit(state, width, taps), width, taps, i, b)

\* Returns <<b, state>>.
lfsr_next_byte(seed, width, taps) == NextByteLoop(seed, width, taps, 0, 0)

RECURSIVE StreamLoop(_, _, _, _, _)
\* b, state = lfsr_next_byte(state, width, taps); out.append(b)
StreamBody(r, width, taps, remaining, out) ==
    StreamLoop(r[2], width, taps, remaining - 1, Append(out, r[1]))

StreamLoop(state, width, taps, remaining, out) ==
    IF remaining = 0 THEN out
    ELSE StreamBody(lfsr_next_byte(state, width, taps), width, taps, remaining, out)

\* A stream that restarts every byte from the seed instead of threading the
\* register state through the loop.
lfsr_stream_unthreaded(seed, width, taps, nbytes) ==
    [k \in 1..nbytes |-> lfsr_next_byte(seed, width, taps)[1]]

lfsr_stream(seed, width, taps, nbytes) == StreamLoop(seed, width, taps, nbytes, <<>>)

(***************************************************************************)
(* mitm_recover_seeds                                                      *)
(***************************************************************************)
taps1 == convert_taps(RAW_TAPS_REG1, WIDTH_REG1)
taps2 == convert_taps(RAW_TAPS_REG2, WIDTH_REG2)

max_seed1 == ShiftLeft(1, WIDTH_REG1)
max_seed2 == ShiftLeft(1, WIDTH_REG2)

\* The header lengths mitm_recover_seeds is called with, and the stream
\* lengths of the two registers the model evaluates.
HeaderLens == (0..MaxHeaderLen) \cup {Len(PNG_HEADER)}
StreamLens == HeaderLens \cup (0..MaxBytes)

\* lfsr_stream(seed1, WIDTH_REG1, taps1, n) and lfsr_stream(seed2, WIDTH_REG2,
\* taps2, n): lfsr_stream is pure, so each is evaluated once per seed and n.
Stream1Memo ==
    Tabulate([n \in StreamLens |->
        Tabulate([seed1 \in 0..(max_seed1 - 1) |->
            lfsr_stream(seed1, WIDTH_REG1, taps1, n)])])

Stream2Memo ==
    Tabulate([n \in StreamLens |->
        Tabulate([seed2 \in 0..(max_seed2 - 1) |->
            lfsr_stream(seed2, WIDTH_REG2, taps2, n)])])

Stream1(seed1, n) == Stream1Memo[n][seed1]
Stream2(seed2, n) == Stream2Memo[n][seed2]

\* seq_to_seed2 = {}
EmptyTable == <<>>

\* A table whose later seed replaces the earlier one.
TableInsertLastWins(seq_to_seed2, seq2, seed2) ==
    (seq2 :> seed2) @@ seq_to_seed2

\* if seq2 not in seq_to_seed2: seq_to_seed2[seq2] = seed2
TableInsert(seq_to_seed2, seq2, seed2) ==
    IF seq2 \in DOMAIN seq_to_seed2 THEN seq_to_seed2
    ELSE seq_to_seed2 @@ (seq2 :> seed2)

\* for seed2 in range(max_seed2): the seeds lo..hi-1 in ascending order. The
\* range is split in halves only to keep the recursion shallow: the lower half
\* is processed first (the test on its domain makes the evaluation do so; a
\* table that holds a seed is never empty) and the upper half continues from
\* the table it left.
RECURSIVE BuildTable(_, _, _, _)
BuildUpper(mid, hi, n, lower) ==
    IF DOMAIN lower = {} THEN lower ELSE BuildTable(mid, hi, n, lower)

BuildTable(lo, hi, n, seq_to_seed2) ==
    IF lo >= hi THEN seq_to_seed2
    ELSE IF hi = lo + 1
    THEN TableInsert(seq_to_seed2, Stream2(lo, n), lo)
    ELSE BuildUpper((lo + hi) \div 2, hi, n,
                    BuildTable(lo, (lo + hi) \div 2, n, seq_to_seed2))

\* The table mitm_recover_seeds builds for a header of n bytes. It depends on
\* n alone, so it is evaluated once per length.
TableByLen ==
    Tabulate([n \in HeaderLens |-> BuildTable(0, max_seed2, n, EmptyTable)])

\* b2 = (k - b1) % 255 for k, b1 in zip(keystream_header, seq1)
NeededSeq2(keystream_header, seq1) ==
    [i \in 1..Len(keystream_header) |-> (keystream_header[i] - seq1[i]) % 255]

\* The body of the search loop for one seed1: needed_seq2 is looked up and
\* the pair is returned on a hit; None stands for no return in this pass.
\* seed2 = seq_to_seed2.get(needed_seq2); if seed2 is not None: return seed1, seed2
SearchBody(seed1, keystream_header, seq_to_seed2, needed_seq2) ==
    IF needed_seq2 \in DOMAIN seq_to_seed2
    THEN <<seed1, seq_to_seed2[needed_seq2]>>
    ELSE None

\* for seed1 in range(max_seed1): the seeds lo..hi-1 in ascending order, up to
\* the first return; falling off the loop returns None. The range is split in
\* halves only to keep the recursion shallow: the upper half is entered only
\* when the lower half has not returned.
RECURSIVE SearchLoop(_, _, _, _)
SearchUpper(mid, hi, keystream_header, seq_to_seed2, lower) ==
    IF lower # None THEN lower
    ELSE SearchLoop(mid, hi, keystream_header, seq_to_seed2)

SearchLoop(lo, hi, keystream_header, seq_to_seed2) ==
    IF lo >= hi THEN None
    ELSE IF hi = lo + 1
    THEN SearchBody(lo, keystream_header, seq_to_seed2,
                    NeededSeq2(keystream_header,
                               Stream1(lo, Len(keystream_header))))
    ELSE SearchUpper((lo + hi) \div 2, hi, keystream_header, seq_to_seed2,
                     SearchLoop(lo, (lo + hi) \div 2, keystream_header,
                                seq_to_seed2))

mitm_recover_seeds(keystream_header) ==
    SearchLoop(0, max_seed1, keystream_header,
               TableByLen[Len(keystream_header)])

(***************************************************************************)
(* generate_full_keystream                                                 *)
(***************************************************************************)
\* Byte-wrapping addition.
CombineMod256(b1, b2) == (b1 + b2) % 256

\* rnd = (b1 + b2) % 255
Combine(b1, b2) == (b1 + b2) % 255

RECURSIVE KeystreamLoop(_, _, _, _)
\* b1, s1 = lfsr_next_byte(s1, ...); b2, s2 = lfsr_next_byte(s2, ...);
\* out.append((b1 + b2) % 255)
KeystreamBody(r1, r2, remaining, out) ==
    KeystreamLoop(r1[2], r2[2], remaining - 1, Append(out, Combine(r1[1], r2[1])))

KeystreamLoop(s1, s2, remaining, out) ==
    IF remaining = 0 THEN out
    ELSE KeystreamBody(lfsr_next_byte(s1, WIDTH_REG1, taps1),
                       lfsr_next_byte(s2, WIDTH_REG2, taps2), remaining, out)

generate_full_keystream(seed1, seed2, nbytes) == KeystreamLoop(seed1, seed2, nbytes, <<>>)

(***************************************************************************)
(* State.                                                                  *)
(***************************************************************************)
VARIABLES
    \* a call of convert_taps
    ct_raw_taps, ct_width, ct_taps, ct_error, ct_pc,
    \* a call of lfsr_stream, and the call of lfsr_next_byte inside it
    ls_seed, ls_width, ls_taps, ls_nbytes, ls_state, ls_out, ls_pc,
    nb_state, nb_b, nb_i,
    \* a call of generate_full_keystream
    ks_seed1, ks_seed2, ks_nbytes, ks_s1, ks_s2, ks_out, ks_pc,
    \* a call of mitm_recover_seeds
    mr_header, mr_result, mr_pc,
    \* a run of main; enc is what the encrypting side used (<<seed1, seed2,
    \* plaintext>>, or <<>> for a file that was not made by it)
    m_cipher, m_header, m_seeds, m_ks, m_plain, m_pc, enc

ctVars == <<ct_raw_taps, ct_width, ct_taps, ct_error, ct_pc>>
lsVars == <<ls_seed, ls_width, ls_taps, ls_nbytes, ls_state, ls_out, ls_pc,
            nb_state, nb_b, nb_i>>
ksVars == <<ks_seed1, ks_seed2, ks_nbytes, ks_s1, ks_s2, ks_out, ks_pc>>
mrVars == <<mr_header, mr_result, mr_pc>>
mVars == <<m_cipher, m_header, m_seeds, m_ks, m_plain, m_pc, enc>>
vars == <<ctVars, lsVars, ksVars, mrVars, mVars>>

\* The functions that are not being called.
ctIdle == ct_raw_taps = <<>> /\ ct_width = 0 /\ ct_taps = <<>> /\ ct_error = ""
          /\ ct_pc = "idle"
lsIdle == ls_seed = 0 /\ ls_width = 0 /\ ls_taps = <<>> /\ ls_nbytes = 0
          /\ ls_state = 0 /\ ls_out = <<>> /\ ls_pc = "idle"
          /\ nb_state = 0 /\ nb_b = 0 /\ nb_i = 0
ksIdle == ks_seed1 = 0 /\ ks_seed2 = 0 /\ ks_nbytes = 0 /\ ks_s1 = 0 /\ ks_s2 = 0
          /\ ks_out = <<>> /\ ks_pc = "idle"
mrIdle == mr_header = <<>> /\ mr_result = None /\ mr_pc = "idle"
mIdle == m_cipher = <<>> /\ m_header = <<>> /\ m_seeds = None /\ m_ks = <<>>
         /\ m_plain = <<>> /\ m_pc = "idle" /\ enc = <<>>

\* The sequences over S of length at most n.
SeqsUpTo(S, n) == UNION {[1..k -> S] : k \in 0..n}

(***************************************************************************)
(* A call convert_taps(raw_taps, width).                                   *)
(***************************************************************************)
\* Raw taps as configured: the valid positions 1..width and the positions
\* next to them on both sides.
RawTapInputs(w) == (-1)..(w + 2)

InitTaps ==
    /\ ct_width \in 1..MaxWidth
    /\ ct_raw_taps \in SeqsUpTo(RawTapInputs(ct_width), MaxTaps)
    /\ ct_taps = <<>>
    /\ ct_error = ""
    /\ ct_pc = "called"
    /\ lsIdle /\ ksIdle /\ mrIdle /\ mIdle

\* The function has no check of its input: it returns the list of offsets
\* and raises nothing.
ConvertTaps ==
    /\ ct_pc = "called"
    /\ ct_taps' = convert_taps(ct_raw_taps, ct_width)
    /\ ct_error' = ""
    /\ ct_pc' = "returned"
    /\ UNCHANGED <<ct_raw_taps, ct_width, lsVars, ksVars, mrVars, mVars>>

NextTaps == ConvertTaps

SpecTaps == InitTaps /\ [][NextTaps]_vars

(***************************************************************************)
(* A call lfsr_stream(seed, width, taps, nbytes), bit by bit.              *)
(***************************************************************************)
InitLfsr ==
    /\ ls_width \in 1..MaxWidth
    /\ \E raw \in SeqsUpTo(1..ls_width, MaxTaps) :
          ls_taps = convert_taps(raw, ls_width)
    /\ ls_seed \in 0..(ShiftLeft(1, ls_width) - 1)
    /\ ls_nbytes \in 0..MaxBytes
    /\ ls_state = ls_seed
    /\ ls_out = <<>>
    /\ ls_pc = "loop"
    /\ nb_state = 0 /\ nb_b = 0 /\ nb_i = 0
    /\ ctIdle /\ ksIdle /\ mrIdle /\ mIdle

\* for _ in range(nbytes): lfsr_next_byte(state, width, taps) is called
CallNextByte ==
    /\ ls_pc = "loop"
    /\ Len(ls_out) < ls_nbytes
    /\ nb_state' = ls_state
    /\ nb_b' = 0
    /\ nb_i' = 0
    /\ ls_pc' = "next_byte"
    /\ UNCHANGED <<ls_seed, ls_width, ls_taps, ls_nbytes, ls_state, ls_out>>
    /\ UNCHANGED <<ctVars, ksVars, mrVars, mVars>>

\* for i in range(8): bit, state = lfsr_next_bit(state, width, taps); b |= bit << i
NextBit ==
    /\ ls_pc = "next_byte"
    /\ nb_i < 8
    /\ LET r == lfsr_next_bit(nb_state, ls_width, ls_taps)
       IN /\ nb_state' = r[2]
          /\ nb_b' = PackBit(nb_b, r[1], nb_i)
    /\ nb_i' = nb_i + 1
    /\ UNCHANGED <<ls_seed, ls_width, ls_taps, ls_nbytes, ls_state, ls_out, ls_pc>>
    /\ UNCHANGED <<ctVars, ksVars, mrVars, mVars>>

\* return b, state; b, state = lfsr_next_byte(...); out.append(b)
ReturnByte ==
    /\ ls_pc = "next_byte"
    /\ nb_i = 8
    /\ ls_out' = Append(ls_out, nb_b)
    /\ ls_state' = nb_state
    /\ ls_pc' = "loop"
    /\ UNCHANGED <<ls_seed, ls_width, ls_taps, ls_nbytes, nb_state, nb_b, nb_i>>
    /\ UNCHANGED <<ctVars, ksVars, mrVars, mVars>>

\* return out
ReturnStream ==
    /\ ls_pc = "loop"
    /\ Len(ls_out) = ls_nbytes
    /\ ls_pc' = "returned"
    /\ UNCHANGED <<ls_seed, ls_width, ls_taps, ls_nbytes, ls_state, ls_out,
                   nb_state, nb_b, nb_i>>
    /\ UNCHANGED <<ctVars, ksVars, mrVars, mVars>>

NextLfsr == CallNextByte \/ NextBit \/ ReturnByte \/ ReturnStream

SpecLfsr == InitLfsr /\ [][NextLfsr]_vars

(***************************************************************************)
(* A call generate_full_keystream(seed1, seed2, nbytes), byte by byte.     *)
(***************************************************************************)
\* Bytes at the ends of the byte range.
ProbeBytes == {0, 1, 254, 255}

\* The seeds of the two registers, and the seeds of the second register the
\* runs of generate_full_keystream and of main start from: those whose first
\* output byte (the low eight bits of the seed) is a probe byte.
Seeds1 == 0..(max_seed1 - 1)
Seeds2 == 0..(max_seed2 - 1)
SampleSeeds2 == {seed2 \in Seeds2 : seed2 % 256 \in ProbeBytes}

InitKeystream ==
    /\ ks_seed1 \in Seeds1
    /\ ks_seed2 \in SampleSeeds2
    /\ ks_nbytes \in 0..MaxBytes
    /\ ks_s1 = ks_seed1
    /\ ks_s2 = ks_seed2
    /\ ks_out = <<>>
    /\ ks_pc = "loop"
    /\ ctIdle /\ lsIdle /\ mrIdle /\ mIdle

\* b1, s1 = lfsr_next_byte(s1, WIDTH_REG1, taps1)
\* b2, s2 = lfsr_next_byte(s2, WIDTH_REG2, taps2)
\* rnd = (b1 + b2) % 255; out.append(rnd)
KeystreamByte ==
    /\ ks_pc = "loop"
    /\ Len(ks_out) < ks_nbytes
    /\ LET r1 == lfsr_next_byte(ks_s1, WIDTH_REG1, taps1)
           r2 == lfsr_next_byte(ks_s2, WIDTH_REG2, taps2)
       IN /\ ks_s1' = r1[2]
          /\ ks_s2' = r2[2]
          /\ ks_out' = Append(ks_out, Combine(r1[1], r2[1]))
    /\ UNCHANGED <<ks_seed1, ks_seed2, ks_nbytes, ks_pc>>
    /\ UNCHANGED <<ctVars, lsVars, mrVars, mVars>>

\* return bytes(out)
ReturnKeystream ==
    /\ ks_pc = "loop"
    /\ Len(ks_out) = ks_nbytes
    /\ ks_pc' = "returned"
    /\ UNCHANGED <<ks_seed1, ks_seed2, ks_nbytes, ks_s1, ks_s2, ks_out>>
    /\ UNCHANGED <<ctVars, lsVars, mrVars, mVars>>

NextKeystream == KeystreamByte \/ ReturnKeystream

SpecKeystream == InitKeystream /\ [][NextKeystream]_vars

\* The two register engines together: a call of lfsr_stream or a call of
\* generate_full_keystream.
InitEngine == InitLfsr \/ InitKeystream

NextEngine == NextLfsr \/ NextKeystream

SpecEngine == InitEngine /\ [][NextEngine]_vars

(***************************************************************************)
(* A call mitm_recover_seeds(keystream_header).                            *)
(***************************************************************************)
\* The first n keystream bytes of a seed pair: per position the sum modulo
\* 255 of the two registers' bytes.
CombinedHeader(s1, s2, n) ==
    [i \in 1..n |-> (Stream1(s1, n)[i] + Stream2(s2, n)[i]) % 255]

\* Headers that seed pairs produce, of each length.
ProducedHeaders ==
    {CombinedHeader(s1, s2, n) :
        s1 \in Seeds1, s2 \in SampleSeeds2, n \in 0..MaxHeaderLen}

\* The headers handed to mitm_recover_seeds: the produced headers, every
\* single byte, and the sequences of probe bytes.
HeaderInputs ==
    ProducedHeaders
        \cup [1..1 -> 0..255]
        \cup SeqsUpTo(ProbeBytes, MaxHeaderLen)

InitMitm ==
    /\ mr_header \in HeaderInputs
    /\ mr_result = None
    /\ mr_pc = "called"
    /\ ctIdle /\ lsIdle /\ ksIdle /\ mIdle

RecoverSeeds ==
    /\ mr_pc = "called"
    /\ mr_result' = mitm_recover_seeds(mr_header)
    /\ mr_pc' = "returned"
    /\ UNCHANGED <<mr_header, ctVars, lsVars, ksVars, mVars>>

NextMitm == RecoverSeeds

SpecMitm == InitMitm /\ [][NextMitm]_vars

(***************************************************************************)
(* A run of main.                                                          *)
(***************************************************************************)
\* bytes(c ^ k for c, k in zip(a, b))
XorBytes(a, b) ==
    [i \in 1..(IF Len(a) <= Len(b) THEN Len(a) ELSE Len(b)) |-> BitXor(a[i], b[i])]

\* Bytes of the plaintext after the PNG header.
TailBytes == {0}

\* The files the encrypting side makes: a PNG header and a tail, XORed with
\* the keystream of its seed pair.
Plaintexts == {PNG_HEADER \o tail : tail \in SeqsUpTo(TailBytes, MaxTail)}

\* Files too short to hold the header.
ShortFiles == {<<>>, <<137, 80, 78>>}

InitMain ==
    /\ \/ /\ \E s1 \in Seeds1, s2 \in SampleSeeds2, plain \in Plaintexts :
               /\ enc = <<s1, s2, plain>>
               /\ m_cipher = XorBytes(plain, generate_full_keystream(s1, s2, Len(plain)))
       \/ /\ enc = <<>>
          /\ m_cipher \in ShortFiles
    /\ m_header = <<>>
    /\ m_seeds = None
    /\ m_ks = <<>>
    /\ m_plain = <<>>
    /\ m_pc = "loaded"
    /\ ctIdle /\ lsIdle /\ ksIdle /\ mrIdle

\* if len(cipher) < len(PNG_HEADER): raise RuntimeError("Ciphertext not valid")
RaiseNotValid ==
    /\ m_pc = "loaded"
    /\ Len(m_cipher) < Len(PNG_HEADER)
    /\ m_pc' = "RuntimeError"
    /\ UNCHANGED <<m_cipher, m_header, m_seeds, m_ks, m_plain, enc>>
    /\ UNCHANGED <<ctVars, lsVars, ksVars, mrVars>>

\* keystream_header = [c ^ p for c, p in zip(header_ct, PNG_HEADER)]
DeriveHeader ==
    /\ m_pc = "loaded"
    /\ Len(m_cipher) >= Len(PNG_HEADER)
    /\ m_header' = XorBytes(SubSeq(m_cipher, 1, Len(PNG_HEADER)), PNG_HEADER)
    /\ m_pc' = "header"
    /\ UNCHANGED <<m_cipher, m_seeds, m_ks, m_plain, enc>>
    /\ UNCHANGED <<ctVars, lsVars, ksVars, mrVars>>

\* seed1, seed2 = mitm_recover_seeds(keystream_header): unpacking None raises
\* TypeError.
Recover ==
    /\ m_pc = "header"
    /\ m_seeds' = mitm_recover_seeds(m_header)
    /\ m_pc' = IF m_seeds' = None THEN "TypeError" ELSE "recovered"
    /\ UNCHANGED <<m_cipher, m_header, m_ks, m_plain, enc>>
    /\ UNCHANGED <<ctVars, lsVars, ksVars, mrVars>>

\* ks = generate_full_keystream(seed1, seed2, len(cipher))
FullKeystream ==
    /\ m_pc = "recovered"
    /\ m_ks' = generate_full_keystream(m_seeds[1], m_seeds[2], Len(m_cipher))
    /\ m_pc' = "keystream"
    /\ UNCHANGED <<m_cipher, m_header, m_seeds, m_plain, enc>>
    /\ UNCHANGED <<ctVars, lsVars, ksVars, mrVars>>

\* plain = bytes(c ^ k for c, k in zip(cipher, ks)); flag.png is written
Decrypt ==
    /\ m_pc = "keystream"
    /\ m_plain' = XorBytes(m_cipher, m_ks)
    /\ m_pc' = "done"
    /\ UNCHANGED <<m_cipher, m_header, m_seeds, m_ks, enc>>
    /\ UNCHANGED <<ctVars, lsVars, ksVars, mrVars>>

NextMain == RaiseNotValid \/ DeriveHeader \/ Recover \/ FullKeystream \/ Decrypt

SpecMain == InitMain /\ [][NextMain]_vars

(***************************************************************************)
(* Properties of convert_taps.                                             *)
(***************************************************************************)
RawTapsValid ==
    \A k \in 1..Len(ct_raw_taps) : ct_raw_taps[k] \in 1..ct_width

\* C5: a raw tap below 1 or above the width makes convert_taps fail with
\* InvalidTapError; no offset is returned for it.
C5_InvalidTapRejected ==
    (ct_pc = "returned" /\ ~RawTapsValid) =>
        (ct_error = "InvalidTapError" /\ ct_taps = <<>>)

\* C8: for raw taps all in 1..width, convert_taps returns a list of the same
\* length whose k-th element is width - raw_taps[k], an offset in 0..width-1,
\* in the order of the input.
C8_ConvertTapsOffsets ==
    (ct_pc = "returned" /\ RawTapsValid) =>
        /\ Len(ct_taps) = Len(ct_raw_taps)
        /\ \A k \in 1..Len(ct_raw_taps) :
              /\ ct_taps[k] = ct_width - ct_raw_taps[k]
              /\ ct_taps[k] \in 0..(ct_width - 1)

\* Two different valid taps converted, the first and the last position.
C8_Witness ==
    /\ ct_pc = "returned"
    /\ ct_width = 3
    /\ ct_raw_taps = <<1, 3>>
    /\ ct_taps = <<2, 0>>

(***************************************************************************)
(* Properties of the register engine.                                      *)
(***************************************************************************)
\* The register transition as the specification words it: the XOR of the bits
\* at the tap offsets, and the value shifted right by one with that bit at
\* position width-1.
TapParity(value, offsets) ==
    Cardinality({k \in 1..Len(offsets) : (value \div (2 ^ offsets[k])) % 2 = 1}) % 2

WithBit(value, pos, bit) ==
    value - ((value \div (2 ^ pos)) % 2) * (2 ^ pos) + bit * (2 ^ pos)

NextValue(value, w, offsets) ==
    WithBit(value \div 2, w - 1, TapParity(value, offsets))

RECURSIVE ValueAfter(_, _, _, _)
ValueAfter(value, w, offsets, steps) ==
    IF steps = 0 THEN value
    ELSE ValueAfter(NextValue(value, w, offsets), w, offsets, steps - 1)

\* The byte whose bit i is the output bit of transition i, for i in 0..7.
ByteLsbFirst(value, w, offsets) ==
    LET bitAt(i) == ValueAfter(value, w, offsets, i) % 2
    IN bitAt(0) + 2 * bitAt(1) + 4 * bitAt(2) + 8 * bitAt(3) + 16 * bitAt(4)
       + 32 * bitAt(5) + 64 * bitAt(6) + 128 * bitAt(7)

RegisterRange(w) == 0..((2 ^ w) - 1)

\* C9: the register value lies in [0, 2^width) after every lfsr_next_bit
\* transition, inside lfsr_next_byte, at every step of lfsr_stream and at every
\* step of generate_full_keystream.
C9_RegisterInRange ==
    /\ ls_pc # "idle" =>
          /\ ls_state \in RegisterRange(ls_width)
          /\ nb_state \in RegisterRange(ls_width)
    /\ ks_pc # "idle" =>
          /\ ks_s1 \in RegisterRange(WIDTH_REG1)
          /\ ks_s2 \in RegisterRange(WIDTH_REG2)

\* A register all of whose bits came from the feedback, the top one set.
C9_Witness ==
    /\ ls_pc = "next_byte"
    /\ ls_width = 3
    /\ nb_i = 8
    /\ nb_state >= 4
    /\ nb_state \in RegisterRange(ls_width)

\* One call of lfsr_next_bit inside lfsr_next_byte: the new state is the
\* transition of the old one, and bit nb_i of the byte is the old state's
\* least-significant bit, the lower bits kept and no higher bit set.
C10_NextBitStep ==
    (ls_pc = "next_byte" /\ nb_i' = nb_i + 1) =>
        /\ nb_state' = NextValue(nb_state, ls_width, ls_taps)
        /\ (nb_b' \div (2 ^ nb_i)) % 2 = nb_state % 2
        /\ nb_b' % (2 ^ nb_i) = nb_b
        /\ nb_b' < 2 ^ (nb_i + 1)

\* The return of lfsr_next_byte: the byte packed least-significant bit first
\* from eight transitions, and the state after the eighth.
C10_NextByteStep ==
    (ls_pc = "next_byte" /\ ls_pc' = "loop") =>
        /\ ls_out' = Append(ls_out, ByteLsbFirst(ls_state, ls_width, ls_taps))
        /\ ls_state' = ValueAfter(ls_state, ls_width, ls_taps, 8)

\* C10: lfsr_next_bit puts out the least-significant bit of the state and
\* leaves the state shifted right by one with bit width-1 set to the XOR of the
\* tapped bits; lfsr_next_byte applies it eight times, puts the output bit of
\* call i at bit i of the byte, and returns the state after the eighth call.
C10_BitAndByte == [][C10_NextBitStep /\ C10_NextByteStep]_vars

\* lfsr_next_byte(5, 3, [2, 1]) has returned (109, 3).
C10_Witness ==
    /\ ls_pc = "loop"
    /\ ls_seed = 5 /\ ls_width = 3 /\ ls_taps = <<2, 1>>
    /\ ls_out = <<109>>
    /\ ls_state = 3

\* C7: the bytes lfsr_stream has produced after n bytes, followed by the m
\* bytes of a stream that starts from the register state reached there, are
\* lfsr_stream(seed, width, taps, n + m).
C7_Composability ==
    ls_pc \in {"loop", "returned"} =>
        \A m \in 0..(MaxBytes - Len(ls_out)) :
            ls_out \o lfsr_stream(ls_state, ls_width, ls_taps, m)
                = lfsr_stream(ls_seed, ls_width, ls_taps, Len(ls_out) + m)

\* One byte produced, one to go, from a state whose next byte differs.
C7_Witness ==
    /\ ls_pc = "loop"
    /\ ls_nbytes = 2
    /\ Len(ls_out) = 1
    /\ ls_state # ls_seed
    /\ lfsr_stream(ls_state, ls_width, ls_taps, 1) # ls_out
    /\ ls_out \o lfsr_stream(ls_state, ls_width, ls_taps, 1)
          = lfsr_stream(ls_seed, ls_width, ls_taps, 2)

(***************************************************************************)
(* Properties of generate_full_keystream.                                  *)
(***************************************************************************)
\* The state of a register after k bytes, the other register left out.
RECURSIVE StateAfterBytes(_, _, _, _)
StateAfterBytes(value, w, offsets, k) ==
    IF k = 0 THEN value
    ELSE StateAfterBytes(lfsr_next_byte(value, w, offsets)[2], w, offsets, k - 1)

\* The same for each seed of the two registers, evaluated once.
Alone1 ==
    Tabulate([k \in 0..MaxBytes |->
        Tabulate([s1 \in Seeds1 |-> StateAfterBytes(s1, WIDTH_REG1, taps1, k)])])

Alone2 ==
    Tabulate([k \in 0..MaxBytes |->
        Tabulate([s2 \in SampleSeeds2 |->
            StateAfterBytes(s2, WIDTH_REG2, taps2, k)])])

\* C6: byte i of generate_full_keystream(seed1, seed2, nbytes) is the sum
\* modulo 255 of byte i of the two registers' streams, the output has nbytes
\* bytes, each in 0..254, and each register advances on its own.
C6_KeystreamBytes ==
    /\ ks_pc # "idle" =>
          /\ ks_s1 = Alone1[Len(ks_out)][ks_seed1]
          /\ ks_s2 = Alone2[Len(ks_out)][ks_seed2]
    /\ ks_pc = "returned" =>
          /\ Len(ks_out) = ks_nbytes
          /\ \A i \in 1..ks_nbytes :
                /\ ks_out[i] = (Stream1(ks_seed1, ks_nbytes)[i]
                                + Stream2(ks_seed2, ks_nbytes)[i]) % 255
                /\ ks_out[i] \in 0..254

\* seed1 = 1 gives bytes 129, 234 and seed2 = 255 gives 255, 224: both sums
\* pass 255.
C6_Witness ==
    /\ ks_pc = "returned"
    /\ ks_seed1 = 1 /\ ks_seed2 = 255 /\ ks_nbytes = 2
    /\ ks_out = <<129, 203>>

(***************************************************************************)
(* Properties of mitm_recover_seeds.                                       *)
(***************************************************************************)
\* The streams of the second register, of each length.
Streams2 ==
    Tabulate([n \in 0..MaxHeaderLen |-> {Stream2(t, n) : t \in Seeds2}])

\* The bytes b2 in 0..255 with (b1 + b2) mod 255 = k: they are congruent to
\* k - b1 modulo 255, so they are among the residue and the residue plus 255.
PartnerBytes(k, b1) ==
    {b2 \in {(k - b1) % 255, ((k - b1) % 255) + 255} :
        b2 \in 0..255 /\ (b1 + b2) % 255 = k}

\* The byte sequences that combine with seq1 into the first k bytes of header.
RECURSIVE PartnerSeqs(_, _, _)
PartnerSeqs(header, seq1, k) ==
    IF k = 0 THEN {<<>>}
    ELSE {Append(q, b2) : q \in PartnerSeqs(header, seq1, k - 1),
                          b2 \in PartnerBytes(header[k], seq1[k])}

\* Some seed pair's combined first bytes are the header.
Producible(header) ==
    \E s1 \in Seeds1 :
        PartnerSeqs(header, Stream1(s1, Len(header)), Len(header))
            \cap Streams2[Len(header)] # {}

\* C1: a header that is the combined first n bytes of some seed pair is
\* answered with a seed pair (never None) whose combined first n bytes are the
\* header, also when a byte of the second register's stream is 255.
C1_RoundTrip ==
    (mr_pc = "returned" /\ Producible(mr_header)) =>
        /\ mr_result # None
        /\ CombinedHeader(mr_result[1], mr_result[2], Len(mr_header)) = mr_header

\* C2: a header of bytes in 0..255 that no seed pair produces is answered with
\* None, never with a seed pair, also when it holds the byte 255.
C2_NotFound ==
    (mr_pc = "returned" /\ ~Producible(mr_header)) =>
        mr_result = None

\* The bytes the second register has to put out for seed1 to match the header.
Needed(header, s1) ==
    [i \in 1..Len(header) |-> (header[i] - Stream1(s1, Len(header))[i]) % 255]

\* For each stream of the second register, the smallest seed that streams it:
\* the seeds lo..hi-1 are taken from the largest down and each one replaces
\* the entry of its stream, so the entry that stays is the smallest seed. (The
\* range is split in halves to keep the recursion shallow; the test on the
\* domain makes the upper half come first.)
RECURSIVE SmallestFrom(_, _, _, _)
SmallestLower(lo, mid, n, upper) ==
    IF DOMAIN upper = {} THEN upper ELSE SmallestFrom(lo, mid, n, upper)

SmallestFrom(lo, hi, n, above) ==
    IF hi = lo + 1
    THEN (Stream2(lo, n) :> lo) @@ above
    ELSE SmallestLower(lo, (lo + hi) \div 2, n,
                       SmallestFrom((lo + hi) \div 2, hi, n, above))

SmallestSeed2 ==
    Tabulate([n \in 0..MaxHeaderLen |->
        SmallestFrom(0, max_seed2 - 1, n, (Stream2(max_seed2 - 1, n) :> max_seed2 - 1))])

\* C4: a returned pair (seed1, seed2) has the smallest seed1 for which some
\* seed of the second register streams Needed(seed1), and the smallest seed2
\* that streams it; no smaller seed1 has a hit.
C4_TieBreak ==
    (mr_pc = "returned" /\ mr_result # None) =>
        LET n == Len(mr_header)
        IN /\ Needed(mr_header, mr_result[1]) \in DOMAIN SmallestSeed2[n]
           /\ mr_result[2] = SmallestSeed2[n][Needed(mr_header, mr_result[1])]
           /\ \A s1 \in 0..(mr_result[1] - 1) :
                 Needed(mr_header, s1) \notin DOMAIN SmallestSeed2[n]

\* A pair was returned although a larger seed1 has a hit too and a larger
\* seed2 streams the same bytes.
C4_Witness ==
    /\ mr_pc = "returned"
    /\ mr_result # None
    /\ Len(mr_header) >= 1
    /\ mr_result[2] > 0
    /\ \E s1 \in Seeds1 :
          /\ s1 > mr_result[1]
          /\ Needed(mr_header, s1) \in DOMAIN SmallestSeed2[Len(mr_header)]
    /\ \E s2 \in Seeds2 :
          /\ s2 > mr_result[2]
          /\ Stream2(s2, Len(mr_header)) = Needed(mr_header, mr_result[1])

(***************************************************************************)
(* Properties of main.                                                     *)
(***************************************************************************)
\* C3: for a file the encrypting side made from a plaintext that starts with
\* the known header, the run ends with every plaintext byte reproduced, the
\* bytes after the header included.
C3_EndToEnd ==
    (enc # <<>> /\ m_pc \in {"done", "TypeError"}) =>
        (m_pc = "done" /\ m_plain = enc[3])

=============================================================================
